---- MODULE Spec2Model ----
(***************************************************************************)
(* Model of peeq's App (app.go): the profile store (configDB), the single *)
(* active connection (activeDB, activeConnID) and the handles that        *)
(* gorm.Open hands out.  Library calls (gorm, database/sql) are the       *)
(* environment: each call's outcome is chosen nondeterministically among  *)
(* the outcomes the handler distinguishes.                                *)
(***************************************************************************)
EXTENDS Integers, Sequences, FiniteSets, TLC

\* ---------------------------------------------------------------- bounds
MaxProfiles == 2      \* saveConnection calls that succeed
MaxHandles  == 2      \* handles gorm.Open hands out in one run
MaxOffset   == 3      \* largest offset a caller passes to GetTableData
MaxLimit    == 3      \* largest limit a caller passes to GetTableData

\* ---------------------------------------------------------------- inputs
Nil == 0              \* the nil *gorm.DB; also activeConnID's zero value

PgDSN    == "host=localhost dbname=app"
LiteDSN  == "file:test.db"
MyDSN    == "root@tcp(localhost)/app"

\* what a caller saves or probes: <<name, type, dsn>>
ProfileInputs ==
    { <<"pg", "postgres", PgDSN>>, <<"local", "sqlite", LiteDSN>>,
      <<"my", "mysql", MyDSN>> }

\* table names a caller can pass: one per backend, and one no backend has
TableInputs == {"t", "missing"}

\* what a caller pages through: every table of the backends, one no backend
\* has, and offsets and limits from below zero to beyond the largest table
DataTables == {"users", "orders", "t", "missing"}
Offsets    == -1..MaxOffset
Limits     == -1..MaxLimit

\* ids a caller can pass: every id the store can assign, and one it never does
IDs == 1..(MaxProfiles + 1)

\* ---------------------------------------------------------------- errors
\* the prefixes of the handlers' fmt.Errorf messages
ErrSave        == "failed to save connection"
ErrList        == "failed to get connections"
ErrDelete      == "failed to delete connection"
ErrNotFound    == "connection not found"
ErrUnsupported == "unsupported database type"
ErrOpen        == "failed to connect to database"
ErrSqlDB       == "failed to get underlying sql.DB"
ErrPing        == "failed to ping database"
ErrTestOpen    == "failed to connect"
ErrNoActive    == "no active database connection"
ErrConnInfo    == "failed to get connection info"
ErrUnsupportedListing == "unsupported database type for table listing"
ErrQueryTables == "failed to query tables"
ErrColumnInfo  == "failed to get column info"
ErrCount       == "failed to get total count"
ErrQueryData   == "failed to query table data"
OK             == "nil"

VARIABLES
    configDB,       \* rows of the connections table: [ID, Name, Type, DSN]
    nextID,         \* next auto-increment primary key of that table
    handles,        \* handles gorm.Open returned: <<[DSN, open]>>, index = handle
    activeDB,       \* a.activeDB: a handle, or Nil
    activeConnID,   \* a.activeConnID
    last,           \* the last call: its arguments, result and what it touched
    inflight        \* calls running concurrently, statement by statement

vars == <<configDB, nextID, handles, activeDB, activeConnID, last, inflight>>

\* a switch with one more case
SupportedPlusMySQL(type) == type \in {"postgres", "sqlite", "mysql"}

\* the backend types the switch statements have a case for
Supported(type) == type \in {"postgres", "sqlite"}

\* the zero value of Connection
ZeroConnection == [ID |-> 0, Name |-> "", Type |-> "", DSN |-> ""]

\* the record of a call, before the handler fills it in
NoCall ==
    [op |-> "", id |-> 0, table |-> "", offset |-> 0, limit |-> 0,
     err |-> OK, detail |-> "",
     type |-> "",            \* backend type the call switched on
     outcome |-> "",         \* what the library calls it reached did
     prevDB |-> Nil, prevConnID |-> 0,
     stored |-> FALSE,       \* ConnectToDatabase: the store held a row with the id
     opened |-> Nil,         \* handle gorm.Open returned in this call
     queries |-> 0,          \* queries the call issued on the active handle
     list |-> {},            \* GetConnections
     tables |-> << >>,       \* GetTables
     skipped |-> 0,          \* result rows whose Scan failed
     countFailed |-> {},     \* GetTables: tables whose count query failed
     columns |-> << >>, rows |-> << >>, total |-> 0]   \* GetTableData

Call(op) ==
    [NoCall EXCEPT !.op = op, !.prevDB = activeDB, !.prevConnID = activeConnID]

\* ------------------------------------------------------------ gorm helpers
\* db.Find(&connection, id): the row with that primary key, or dest left at
\* its zero value (Find reports no error when nothing matches)
Find(id) ==
    IF \E c \in configDB : c.ID = id
    THEN CHOOSE c \in configDB : c.ID = id
    ELSE ZeroConnection

\* gorm.Open succeeded: a fresh open handle
NewHandle(dsn) == [DSN |-> dsn, open |-> TRUE]

\* sqlDB.Close()
Close(hs, h) == [hs EXCEPT ![h].open = FALSE]

\* outcomes of gorm.Open / db.DB() / sqlDB.Ping() the handlers distinguish
OpenOutcomes == {"openfail", "dbfail", "pingfail", "ok"}

\* ... and, before them, of the profile lookup in ConnectToDatabase
ConnectOutcomes == {"findfail"} \cup OpenOutcomes

\* ------------------------------------------------------------ the backends
\* What lies behind each DSN: its tables in catalog order, and per table the
\* column names and the number of rows.  A table no backend has is Missing.
Tables(dsn) ==
    CASE dsn = PgDSN   -> <<"users", "orders">>
      [] dsn = LiteDSN -> <<"t">>
      [] OTHER         -> << >>

ColumnsOf(table) ==
    CASE table = "users"  -> <<"id", "email">>
      [] table = "orders" -> <<"id">>
      [] table = "t"      -> <<"id", "name">>
      [] OTHER            -> << >>

RowsOf(table) ==
    CASE table = "users"  -> 2
      [] table = "orders" -> 0
      [] table = "t"      -> 2
      [] OTHER            -> 0

Range(f) == {f[i] : i \in DOMAIN f}

HasTable(dsn, table) == table \in Range(Tables(dsn))

\* the driver a handle talks through
Engine(dsn) == IF dsn = PgDSN THEN "postgres" ELSE "sqlite"

\* the elements of seq whose index is not in skip, in order
RECURSIVE Keep(_, _, _)
Keep(seq, skip, i) ==
    IF i > Len(seq) THEN << >>
    ELSE IF i \in skip THEN Keep(seq, skip, i + 1)
         ELSE <<seq[i]>> \o Keep(seq, skip, i + 1)

\* SELECT * FROM <table> LIMIT <limit> OFFSET <offset> on n rows: the row
\* numbers returned.  SQLite reads a negative LIMIT as no limit and a negative
\* OFFSET as 0; PostgreSQL rejects both (the caller sees the query fail).
PageRejected(engine, offset, limit) ==
    engine = "postgres" /\ (offset < 0 \/ limit < 0)

\* a page that runs one row past the limit
PageOneMore(engine, n, offset, limit) ==
    LET off  == IF offset < 0 THEN 0 ELSE offset
        stop == IF limit < 0 \/ off + limit + 1 > n THEN n ELSE off + limit + 1
    IN  [i \in 1..(IF stop > off THEN stop - off ELSE 0) |-> off + i]

Page(engine, n, offset, limit) ==
    LET off  == IF offset < 0 THEN 0 ELSE offset
        stop == IF limit < 0 \/ off + limit > n THEN n ELSE off + limit
    IN  [i \in 1..(IF stop > off THEN stop - off ELSE 0) |-> off + i]

\* ------------------------------------------------------------- calls in flight
\* The host runs each bound method on its own goroutine.  A call in flight is
\* at a statement (pc) with its locals: the id it was given, the handle it
\* holds (db) and the profile id it read (connID).  owner remembers, per
\* handle, the profile id ConnectToDatabase opened it from.
Idle ==
    [pc |-> "idle", op |-> "", id |-> 0,
     db |-> Nil,         \* sqlDB of GetTables, GetTableData and ConnectToDatabase
     colDB |-> Nil,      \* sqlDB of getColumnInfo
     connID |-> 0, err |-> OK]

NoneInFlight == [reader |-> Idle, writer |-> Idle, owner |-> << >>]

\* ------------------------------------------------------------------- Init
\* NewApp + startup: configDB opened and migrated, nothing active
Init ==
    /\ configDB = {}
    /\ nextID = 1
    /\ handles = << >>
    /\ activeDB = Nil
    /\ activeConnID = 0
    /\ last = NoCall
    /\ inflight = NoneInFlight

\* ------------------------------------------------------------ ConnectionStore
saveConnection(name, dbType, dsn) ==
    /\ nextID <= MaxProfiles
    /\ \E createErr \in BOOLEAN :
         IF createErr
         THEN /\ last' = [Call("saveConnection") EXCEPT !.err = ErrSave]
              /\ UNCHANGED <<configDB, nextID>>
         ELSE /\ configDB' = configDB \cup
                    {[ID |-> nextID, Name |-> name, Type |-> dbType, DSN |-> dsn]}
              /\ nextID' = nextID + 1
              /\ last' = [Call("saveConnection") EXCEPT !.id = nextID]
    /\ UNCHANGED <<handles, activeDB, activeConnID, inflight>>

GetConnections ==
    /\ \E findErr \in BOOLEAN :
         last' = IF findErr
                 THEN [Call("GetConnections") EXCEPT !.err = ErrList]
                 ELSE [Call("GetConnections") EXCEPT !.list = configDB]
    /\ UNCHANGED <<configDB, nextID, handles, activeDB, activeConnID, inflight>>

\* a DeleteConnection that never looks at the active connection
DeletesActiveNever(id) == FALSE

\* DeleteConnection drops the active connection when it deletes its profile
DeletesActive(id) == activeConnID = id

DeleteConnection(id) ==
    \E deleteErr \in BOOLEAN :
      IF deleteErr
      THEN /\ last' = [Call("DeleteConnection") EXCEPT !.id = id, !.err = ErrDelete]
           /\ UNCHANGED <<configDB, nextID, handles, activeDB, activeConnID, inflight>>
      ELSE /\ configDB' = {c \in configDB : c.ID # id}
           /\ IF DeletesActive(id)
              THEN /\ activeDB' = Nil
                   /\ activeConnID' = 0
              ELSE UNCHANGED <<activeDB, activeConnID>>
           /\ last' = [Call("DeleteConnection") EXCEPT !.id = id]
           /\ UNCHANGED <<nextID, handles, inflight>>

\* ---------------------------------------------------------- ConnectionManager
\* a ConnectToDatabase that stores the new handle before it pings it
SetsActiveBeforePing(outcome) == outcome \in {"ok", "pingfail"}

\* ConnectToDatabase stores the new handle only after open, DB() and Ping
\* all succeeded
SetsActive(outcome) == outcome = "ok"

\* the error ConnectToDatabase returns once the backend type is supported
ConnectErr(outcome) ==
    CASE outcome = "openfail" -> ErrOpen
      [] outcome = "dbfail"   -> ErrSqlDB
      [] outcome = "pingfail" -> ErrPing
      [] OTHER                -> OK

ConnectToDatabase(id) ==
    \E outcome \in ConnectOutcomes :
      LET connection == Find(id)
          call == [Call("ConnectToDatabase") EXCEPT
                     !.id = id, !.stored = (\E c \in configDB : c.ID = id),
                     !.outcome = outcome]
          h == Len(handles) + 1
      IN  /\ UNCHANGED <<configDB, nextID, inflight>>
          /\ IF outcome = "findfail"
             THEN /\ last' = [call EXCEPT !.err = ErrNotFound]
                  /\ UNCHANGED <<handles, activeDB, activeConnID>>
             ELSE IF ~Supported(connection.Type)
             THEN /\ last' = [call EXCEPT !.err = ErrUnsupported,
                                          !.type = connection.Type,
                                          !.detail = connection.Type,
                                          !.outcome = ""]
                  /\ UNCHANGED <<handles, activeDB, activeConnID>>
             ELSE IF outcome = "openfail"
             THEN /\ last' = [call EXCEPT !.err = ErrOpen, !.type = connection.Type]
                  /\ UNCHANGED <<handles, activeDB, activeConnID>>
             ELSE /\ h <= MaxHandles
                  /\ handles' = Append(handles, NewHandle(connection.DSN))
                  /\ last' = [call EXCEPT !.err = ConnectErr(outcome),
                                          !.type = connection.Type, !.opened = h]
                  /\ IF SetsActive(outcome)
                     THEN /\ activeDB' = h
                          /\ activeConnID' = id
                     ELSE UNCHANGED <<activeDB, activeConnID>>

\* the error TestConnection returns once the backend type is supported
TestErr(outcome) ==
    CASE outcome = "openfail" -> ErrTestOpen
      [] outcome = "dbfail"   -> ErrSqlDB
      [] outcome = "pingfail" -> ErrPing
      [] OTHER                -> OK

\* TestConnection as a probe that keeps the handle it opened as the active one
TestConnectionKeepsHandle(dbType, dsn) ==
    \E outcome \in OpenOutcomes :
      LET call == [Call("TestConnection") EXCEPT !.type = dbType]
          h == Len(handles) + 1
      IN  /\ UNCHANGED <<configDB, nextID, activeConnID, inflight>>
          /\ IF ~Supported(dbType)
             THEN /\ last' = [call EXCEPT !.err = ErrUnsupported, !.detail = dbType]
                  /\ UNCHANGED <<handles, activeDB>>
             ELSE IF outcome = "openfail"
             THEN /\ last' = [call EXCEPT !.err = ErrTestOpen, !.outcome = outcome]
                  /\ UNCHANGED <<handles, activeDB>>
             ELSE /\ h <= MaxHandles
                  /\ handles' = Append(handles, NewHandle(dsn))
                  /\ activeDB' = h
                  /\ last' = [call EXCEPT !.err = TestErr(outcome),
                                          !.outcome = outcome, !.opened = h]

TestConnection(dbType, dsn) ==
    \E outcome \in OpenOutcomes :
      LET call == [Call("TestConnection") EXCEPT !.type = dbType]
          h == Len(handles) + 1
          opened == Append(handles, NewHandle(dsn))
      IN  /\ UNCHANGED <<configDB, nextID, activeDB, activeConnID, inflight>>
          /\ IF ~Supported(dbType)
             THEN /\ last' = [call EXCEPT !.err = ErrUnsupported, !.detail = dbType]
                  /\ UNCHANGED handles
             ELSE IF outcome = "openfail"
             THEN /\ last' = [call EXCEPT !.err = ErrTestOpen, !.outcome = outcome]
                  /\ UNCHANGED handles
             ELSE /\ h <= MaxHandles
                  \* the Close is deferred only once db.DB() has succeeded
                  /\ handles' = IF outcome = "dbfail" THEN opened ELSE Close(opened, h)
                  /\ last' = [call EXCEPT !.err = TestErr(outcome),
                                          !.outcome = outcome, !.opened = h]

\* ---------------------------------------------------------- SchemaIntrospector
\* db.First(&connection, id): ErrRecordNotFound when no row matches
FirstFails(id, storageErr) == storageErr \/ ~(\E c \in configDB : c.ID = id)

\* GetTables and GetTableData without their guard
NoActiveUnchecked == FALSE

\* the guard of GetTables and GetTableData
NoActive == activeDB = Nil

\* a listing that leaves out the tables whose count query failed
ListedWithoutFailed(names, scanFail, countFail) ==
    Keep(names, scanFail \cup countFail, 1)

\* the names GetTables appends a TableInfo for: every name it could Scan,
\* whether or not its count query failed
Listed(names, scanFail, countFail) == Keep(names, scanFail, 1)

\* the RowCount GetTables reports: 0 when the count query failed
CountOrZero(name, failed) == IF name \in failed THEN 0 ELSE RowsOf(name)

\* how far a GetTables call gets before a library call fails
TablesOutcomes == {"dbfail", "firstfail", "queryfail", "ok"}

GetTables ==
    LET call == Call("GetTables")
        connection == Find(activeConnID)
    IN  /\ UNCHANGED <<configDB, nextID, handles, activeDB, activeConnID, inflight>>
        /\ IF NoActive
           THEN last' = [call EXCEPT !.err = ErrNoActive]
           ELSE \E outcome \in TablesOutcomes :
             IF outcome = "dbfail"
             THEN last' = [call EXCEPT !.err = ErrSqlDB]
             ELSE IF FirstFails(activeConnID, outcome = "firstfail")
             THEN last' = [call EXCEPT !.err = ErrConnInfo]
             ELSE IF ~Supported(connection.Type)
             THEN last' = [call EXCEPT !.err = ErrUnsupportedListing,
                                       !.detail = connection.Type]
             ELSE IF outcome = "queryfail"
             THEN last' = [call EXCEPT !.err = ErrQueryTables, !.queries = 1]
             ELSE LET names == Tables(handles[activeDB].DSN)
                  IN  \E scanFail \in SUBSET DOMAIN names :
                      \E countFail \in SUBSET (DOMAIN names \ scanFail) :
                        LET listed == Listed(names, scanFail, countFail)
                            failed == {names[i] : i \in countFail}
                        IN  last' = [call EXCEPT
                                !.queries = 1 + Len(names) - Cardinality(scanFail),
                                !.skipped = Cardinality(scanFail),
                                !.countFailed = failed,
                                !.tables =
                                  [i \in DOMAIN listed |->
                                     [Name |-> listed[i],
                                      RowCount |-> CountOrZero(listed[i], failed)]]]

\* how far a getColumnInfo call gets before a library call fails
ColumnOutcomes == {"dbfail", "firstfail", "queryfail", "ok"}

\* getColumnInfo(tableName): the error (OK if none), the columns and the
\* queries issued; scanFail are the result rows whose Scan fails
getColumnInfo(tableName, outcome, scanFail) ==
    LET connection == Find(activeConnID)
        none == [err |-> OK, columns |-> << >>, queries |-> 0]
    IN  IF outcome = "dbfail" THEN [none EXCEPT !.err = ErrSqlDB]
        ELSE IF FirstFails(activeConnID, outcome = "firstfail")
        THEN [none EXCEPT !.err = ErrConnInfo]
        ELSE IF ~Supported(connection.Type)
        THEN [none EXCEPT !.err = ErrUnsupported]
        ELSE IF outcome = "queryfail"
        THEN [none EXCEPT !.err = "query failed", !.queries = 1]
        ELSE [none EXCEPT
                !.queries = 1,
                !.columns =
                  IF HasTable(handles[activeDB].DSN, tableName)
                  THEN Keep(ColumnsOf(tableName), scanFail, 1)
                  ELSE << >>]

\* ------------------------------------------------------------------ DataReader
\* how far a GetTableData call gets after its column lookup
DataOutcomes == {"dbfail", "countfail", "queryfail", "ok"}

GetTableData(tableName, offset, limit) ==
    LET call == [Call("GetTableData") EXCEPT
                   !.table = tableName, !.offset = offset, !.limit = limit]
    IN  /\ UNCHANGED <<configDB, nextID, handles, activeDB, activeConnID, inflight>>
        /\ IF NoActive
           THEN last' = [call EXCEPT !.err = ErrNoActive]
           ELSE \E outcome \in DataOutcomes :
             IF outcome = "dbfail"
             THEN last' = [call EXCEPT !.err = ErrSqlDB]
             ELSE
               LET dsn == handles[activeDB].DSN
                   n == RowsOf(tableName)
               IN  \E colOutcome \in (IF outcome = "ok" THEN ColumnOutcomes ELSE {"ok"}) :
                   \E colSkip \in (IF outcome = "ok" /\ colOutcome = "ok"
                                   THEN SUBSET DOMAIN ColumnsOf(tableName) ELSE {{}}) :
                   LET info == getColumnInfo(tableName, colOutcome, colSkip)
                   IN  IF info.err # OK
                       THEN last' = [call EXCEPT !.err = ErrColumnInfo,
                                                 !.queries = info.queries]
                       ELSE IF outcome = "countfail" \/ ~HasTable(dsn, tableName)
                       THEN last' = [call EXCEPT !.err = ErrCount,
                                                 !.queries = info.queries + 1]
                       ELSE IF outcome = "queryfail"
                               \/ PageRejected(Engine(dsn), offset, limit)
                       THEN last' = [call EXCEPT !.err = ErrQueryData,
                                                 !.queries = info.queries + 2]
                       ELSE LET page == Page(Engine(dsn), n, offset, limit)
                            IN  \E rowSkip \in SUBSET DOMAIN page :
                                  last' = [call EXCEPT
                                             !.queries = info.queries + 2,
                                             !.columns = info.columns,
                                             !.rows = Keep(page, rowSkip, 1),
                                             !.skipped = Cardinality(rowSkip),
                                             !.total = n]

\* ------------------------------------------------------------------- Next
Next ==
    \/ \E p \in ProfileInputs : saveConnection(p[1], p[2], p[3])
    \/ GetConnections
    \/ \E id \in IDs : DeleteConnection(id)
    \/ \E id \in IDs : ConnectToDatabase(id)
    \/ \E p \in ProfileInputs : TestConnection(p[2], p[3])
    \/ GetTables
    \/ \E tableName \in TableInputs : GetTableData(tableName, 0, 1)

Spec == Init /\ [][Next]_vars

\* ------------------------------------------------------------- browsing
\* A caller that has saved one profile and connected to it, and then browses:
\* the states ConnectToDatabase(1) leaves after saveConnection, per backend.
Connected(p) ==
    /\ configDB = {[ID |-> 1, Name |-> p[1], Type |-> p[2], DSN |-> p[3]]}
    /\ nextID = 2
    /\ handles = <<NewHandle(p[3])>>
    /\ activeDB = 1
    /\ activeConnID = 1
    /\ last = [NoCall EXCEPT !.op = "ConnectToDatabase", !.id = 1, !.stored = TRUE,
                             !.outcome = "ok", !.type = p[2], !.opened = 1]
    /\ inflight = NoneInFlight

InitData == \E p \in {q \in ProfileInputs : Supported(q[2])} : Connected(p)

NextData ==
    \/ GetTables
    \/ \E tableName \in DataTables, offset \in Offsets, limit \in Limits :
         GetTableData(tableName, offset, limit)

SpecData == InitData /\ [][NextData]_vars

\* ------------------------------------------------------- concurrent calls
\* No handler takes a lock, so calls on different goroutines interleave between
\* their reads and writes of a.activeDB and a.activeConnID.  One goroutine
\* browses (reader), one connects and deletes (writer).

\* a nil pointer dereference ends the process
Running == inflight.reader.pc # "panic"

Returned(op, err) == [Idle EXCEPT !.op = op, !.err = err]

BrowseOps == {"GetTables", "GetTableData"}

\* if a.activeDB == nil { return ... }
ReadGuard(op) ==
    /\ Running
    /\ inflight.reader.pc = "idle"
    /\ inflight' = [inflight EXCEPT !.reader =
                      IF NoActive THEN Returned(op, ErrNoActive)
                      ELSE [Idle EXCEPT !.pc = "db", !.op = op]]
    /\ UNCHANGED <<configDB, nextID, handles, activeDB, activeConnID, last>>

\* sqlDB, err := a.activeDB.DB()
ReadDB ==
    /\ Running
    /\ inflight.reader.pc = "db"
    /\ \E dbErr \in BOOLEAN :
         inflight' = [inflight EXCEPT !.reader =
            IF activeDB = Nil THEN [@ EXCEPT !.pc = "panic"]
            ELSE IF dbErr THEN Returned(@.op, ErrSqlDB)
            ELSE [@ EXCEPT !.db = activeDB,
                           !.pc = IF inflight.reader.op = "GetTableData"
                                  THEN "coldb" ELSE "first"]]
    /\ UNCHANGED <<configDB, nextID, handles, activeDB, activeConnID, last>>

\* getColumnInfo: sqlDB, err := a.activeDB.DB()
ReadColumnDB ==
    /\ Running
    /\ inflight.reader.pc = "coldb"
    /\ \E dbErr \in BOOLEAN :
         inflight' = [inflight EXCEPT !.reader =
            IF activeDB = Nil THEN [@ EXCEPT !.pc = "panic"]
            ELSE IF dbErr THEN Returned(@.op, ErrColumnInfo)
            ELSE [@ EXCEPT !.colDB = activeDB, !.pc = "first"]]
    /\ UNCHANGED <<configDB, nextID, handles, activeDB, activeConnID, last>>

\* a.configDB.First(&connection, a.activeConnID)
ReadFirst ==
    /\ Running
    /\ inflight.reader.pc = "first"
    /\ \E storageErr \in BOOLEAN :
         inflight' = [inflight EXCEPT !.reader =
            IF FirstFails(activeConnID, storageErr)
            THEN Returned(@.op, IF @.op = "GetTableData" THEN ErrColumnInfo
                                ELSE ErrConnInfo)
            ELSE [@ EXCEPT !.connID = activeConnID, !.pc = "query"]]
    /\ UNCHANGED <<configDB, nextID, handles, activeDB, activeConnID, last>>

\* the queries, in the dialect of the profile read, on the handle held
ReadQuery ==
    /\ Running
    /\ inflight.reader.pc = "query"
    /\ inflight' = [inflight EXCEPT !.reader = Returned(@.op, OK)]
    /\ UNCHANGED <<configDB, nextID, handles, activeDB, activeConnID, last>>

\* ConnectToDatabase up to its Ping
ConnectOpen(id) ==
    /\ Running
    /\ inflight.writer.pc = "idle"
    /\ \E outcome \in ConnectOutcomes :
         LET connection == Find(id)
             op == "ConnectToDatabase"
             h == Len(handles) + 1
         IN  IF outcome = "findfail"
             THEN /\ inflight' = [inflight EXCEPT !.writer = Returned(op, ErrNotFound)]
                  /\ UNCHANGED handles
             ELSE IF ~Supported(connection.Type)
             THEN /\ inflight' = [inflight EXCEPT !.writer = Returned(op, ErrUnsupported)]
                  /\ UNCHANGED handles
             ELSE IF outcome = "openfail"
             THEN /\ inflight' = [inflight EXCEPT !.writer = Returned(op, ErrOpen)]
                  /\ UNCHANGED handles
             ELSE /\ h <= MaxHandles
                  /\ handles' = Append(handles, NewHandle(connection.DSN))
                  /\ inflight' = [inflight EXCEPT
                        !.owner = Append(@, id),
                        !.writer = IF SetsActive(outcome)
                                   THEN [Idle EXCEPT !.pc = "setDB", !.op = op,
                                                     !.id = id, !.db = h]
                                   ELSE Returned(op, ConnectErr(outcome))]
    /\ UNCHANGED <<configDB, nextID, activeDB, activeConnID, last>>

\* a.activeDB = db
ConnectSetDB ==
    /\ Running
    /\ inflight.writer.pc = "setDB"
    /\ activeDB' = inflight.writer.db
    /\ inflight' = [inflight EXCEPT !.writer.pc = "setID"]
    /\ UNCHANGED <<configDB, nextID, handles, activeConnID, last>>

\* a.activeConnID = id
ConnectSetID ==
    /\ Running
    /\ inflight.writer.pc = "setID"
    /\ activeConnID' = inflight.writer.id
    /\ inflight' = [inflight EXCEPT !.writer = Returned(@.op, OK)]
    /\ UNCHANGED <<configDB, nextID, handles, activeDB, last>>

\* a.configDB.Delete(&Connection{}, id)
DeleteRow(id) ==
    /\ Running
    /\ inflight.writer.pc = "idle"
    /\ \E deleteErr \in BOOLEAN :
         IF deleteErr
         THEN /\ inflight' = [inflight EXCEPT
                                !.writer = Returned("DeleteConnection", ErrDelete)]
              /\ UNCHANGED configDB
         ELSE /\ configDB' = {c \in configDB : c.ID # id}
              /\ inflight' = [inflight EXCEPT
                                !.writer = [Idle EXCEPT !.pc = "cmp", !.id = id,
                                                        !.op = "DeleteConnection"]]
    /\ UNCHANGED <<nextID, handles, activeDB, activeConnID, last>>

\* if a.activeConnID == id
DeleteCompare ==
    /\ Running
    /\ inflight.writer.pc = "cmp"
    /\ inflight' = [inflight EXCEPT !.writer =
                      IF DeletesActive(@.id) THEN [@ EXCEPT !.pc = "clearDB"]
                      ELSE Returned(@.op, OK)]
    /\ UNCHANGED <<configDB, nextID, handles, activeDB, activeConnID, last>>

\* a.activeDB = nil
DeleteClearDB ==
    /\ Running
    /\ inflight.writer.pc = "clearDB"
    /\ activeDB' = Nil
    /\ inflight' = [inflight EXCEPT !.writer.pc = "clearID"]
    /\ UNCHANGED <<configDB, nextID, handles, activeConnID, last>>

\* a.activeConnID = 0
DeleteClearID ==
    /\ Running
    /\ inflight.writer.pc = "clearID"
    /\ activeConnID' = 0
    /\ inflight' = [inflight EXCEPT !.writer = Returned(@.op, OK)]
    /\ UNCHANGED <<configDB, nextID, handles, activeDB, last>>

NextRace ==
    \/ \E p \in ProfileInputs : Running /\ saveConnection(p[1], p[2], p[3])
    \/ \E op \in BrowseOps : ReadGuard(op)
    \/ ReadDB
    \/ ReadColumnDB
    \/ ReadFirst
    \/ ReadQuery
    \/ \E id \in IDs : ConnectOpen(id)
    \/ ConnectSetDB
    \/ ConnectSetID
    \/ \E id \in IDs : DeleteRow(id)
    \/ DeleteCompare
    \/ DeleteClearDB
    \/ DeleteClearID

SpecRace == Init /\ [][NextRace]_vars

\* ================================================================= claims
\* the spec's error kinds, as the messages the handlers return
ConnectionUnreachable == {ErrOpen, ErrTestOpen, ErrPing}
UnsupportedBackend    == {ErrUnsupported}
ProfileNotFound       == {ErrNotFound}
NoActiveConnection    == {ErrNoActive}

ActiveUntouched ==
    /\ activeDB = last.prevDB
    /\ activeConnID = last.prevConnID
    /\ last.prevDB # Nil => handles[last.prevDB].open

\* C1: a ConnectToDatabase whose open or ping fails returns a
\* ConnectionUnreachable error and leaves the active handle and the active
\* profile id as they were, whether or not a connection was active.
C1_UnreachableLeavesActive ==
    (last.op = "ConnectToDatabase" /\ last.outcome \in {"openfail", "pingfail"})
        => /\ last.err \in ConnectionUnreachable
           /\ ActiveUntouched

C1_Witness ==
    /\ last.op = "ConnectToDatabase"
    /\ last.outcome = "pingfail"
    /\ last.prevDB # Nil
    /\ last.opened # Nil

\* C2: TestConnection never changes the active connection, whatever the backend
\* type, the DSN and the outcome: the active handle and profile id are the ones
\* from before the call and the handle is still open.
C2_TestConnectionKeepsActive ==
    last.op = "TestConnection" => ActiveUntouched

C2_Witness ==
    /\ last.op = "TestConnection"
    /\ last.err = OK
    /\ last.opened # Nil
    /\ last.prevDB # Nil
    /\ handles[last.prevDB].DSN # handles[last.opened].DSN

\* C3: after a successful DeleteConnection(id) no listing returns a row with
\* that id; if id was the active profile's id nothing is active any more and
\* GetTables can only fail with NoActiveConnection; otherwise the active
\* connection is as it was.
C3_DeleteRemovesAndClears ==
    (last.op = "DeleteConnection" /\ last.err = OK)
        => /\ ~ENABLED (GetConnections /\ \E c \in last'.list : c.ID = last.id)
           /\ last.prevConnID = last.id
                => /\ activeDB = Nil
                   /\ activeConnID = 0
                   /\ ~ENABLED (GetTables /\ last'.err \notin NoActiveConnection)
           /\ last.prevConnID # last.id => ActiveUntouched

C3_Witness ==
    /\ last.op = "DeleteConnection"
    /\ last.err = OK
    /\ last.prevConnID = last.id
    /\ last.prevDB # Nil
    /\ configDB # {}

\* C4: GetTables and GetTableData (with the column lookup it makes) called
\* while nothing is active fail with NoActiveConnection and issue no query.
C4_NoActiveConnectionFails ==
    (last.op \in {"GetTables", "GetTableData"} /\ last.prevDB = Nil)
        => /\ last.err \in NoActiveConnection
           /\ last.queries = 0

C4_Witness ==
    /\ last.op = "GetTableData"
    /\ last.prevDB = Nil
    /\ \E h \in DOMAIN handles : handles[h].open
    /\ configDB = {}

\* C5: ConnectToDatabase with an id the store holds no row for fails with
\* ProfileNotFound, opens no handle and leaves the active connection as it was.
C5_MissingProfileNotFound ==
    (last.op = "ConnectToDatabase" /\ ~last.stored)
        => /\ last.err \in ProfileNotFound
           /\ last.opened = Nil
           /\ ActiveUntouched

\* C6: ConnectToDatabase on a stored profile and TestConnection, asked for a
\* backend type other than "postgres" and "sqlite", fail with UnsupportedBackend
\* naming that type, open no handle and leave the active connection as it was.
C6_UnsupportedBackend ==
    LET requested ==
          IF last.op = "TestConnection" THEN {last.type}
          ELSE IF last.op = "ConnectToDatabase" /\ last.outcome # "findfail"
          THEN {c.Type : c \in {d \in configDB : d.ID = last.id}}
          ELSE {}
    IN  \A type \in requested \ {"postgres", "sqlite"} :
          /\ last.err \in UnsupportedBackend
          /\ last.detail = type
          /\ last.opened = Nil
          /\ ActiveUntouched

C6_Witness ==
    /\ last.op = "ConnectToDatabase"
    /\ last.stored
    /\ last.err \in UnsupportedBackend
    /\ last.detail = "mysql"
    /\ last.prevDB # Nil

\* C7: a successful ConnectToDatabase makes the handle it opened the active one
\* and closes the handle that was active before, if there was one.
C7_PreviousHandleClosed ==
    (last.op = "ConnectToDatabase" /\ last.err = OK)
        => /\ activeDB = last.opened
           /\ activeConnID = last.id
           /\ last.prevDB # Nil => ~handles[last.prevDB].open

\* C8: a ConnectToDatabase that opened a handle and then failed has closed
\* that handle by the time it returns.
C8_FailedConnectReleasesHandle ==
    (last.op = "ConnectToDatabase" /\ last.err # OK /\ last.opened # Nil)
        => ~handles[last.opened].open

\* C9: whatever its outcome, a TestConnection that opened a handle has closed
\* it by the time it returns.
C9_ProbeHandleClosed ==
    (last.op = "TestConnection" /\ last.opened # Nil)
        => ~handles[last.opened].open

\* C10: a successful DeleteConnection of the active profile closes the active
\* handle and leaves nothing active.
C10_DeleteActiveClosesHandle ==
    (last.op = "DeleteConnection" /\ last.err = OK
        /\ last.prevConnID = last.id /\ last.prevDB # Nil)
        => /\ activeDB = Nil
           /\ ~handles[last.prevDB].open

Min(a, b) == IF a < b THEN a ELSE b

\* C12: every successful GetTableData, for every offset and limit including a
\* zero or negative limit, returns at most limit rows and a total that is at
\* least the number of rows returned.
C12_PageWithinLimit ==
    (last.op = "GetTableData" /\ last.err = OK)
        => /\ Len(last.rows) <= last.limit
           /\ last.total >= Len(last.rows)

\* C13 as stated: with offset 0 and a limit N that is a row count, a successful
\* GetTableData returns exactly min(N, total) rows; with an offset at or past
\* total it returns no rows and total is the table's row count.
C13_ExactPage ==
    (last.op = "GetTableData" /\ last.err = OK)
        => /\ (last.offset = 0 /\ last.limit >= 0)
                => Len(last.rows) = Min(last.limit, last.total)
           /\ last.offset >= last.total
                => (last.rows = << >> /\ last.total = RowsOf(last.table))

\* C13 amended: with offset 0 and a limit N >= 0, a successful GetTableData
\* returns min(N, total) rows less the rows whose Scan failed (those are
\* skipped); with an offset at or past total it returns no rows and total is
\* the table's row count.
C13_PageLessSkipped ==
    (last.op = "GetTableData" /\ last.err = OK)
        => /\ (last.offset = 0 /\ last.limit >= 0)
                => Len(last.rows) = Min(last.limit, last.total) - last.skipped
           /\ last.offset >= last.total
                => (last.rows = << >> /\ last.total = RowsOf(last.table))

C13_Witness ==
    /\ last.op = "GetTableData"
    /\ last.err = OK
    /\ last.offset = 0
    /\ last.limit = 3
    /\ last.total = 2
    /\ last.skipped = 1
    /\ Len(last.rows) = 1

C11_Serialized ==
    LET r == inflight.reader
        h == IF r.op = "GetTableData" THEN r.colDB ELSE r.db
    IN  /\ r.pc # "panic"
        /\ r.pc = "query"
             => /\ handles[h].open
                /\ handles[r.db].open
                /\ inflight.owner[h] = r.connID
                /\ inflight.owner[r.db] = r.connID

====
